---- MODULE Spec2Model ----
(***************************************************************************)
(* Bonsai: filtering and traversal engine (bonsai/utils.py,                *)
(* bonsai/processor.py, bonsai/config.py, bonsai/cli.py).                  *)
(*                                                                         *)
(* A Python str is a sequence of one-character strings, a pathlib.Path is  *)
(* the sequence of its segments (the filesystem root "/" is <<>>), an      *)
(* Optional value is a sequence of length 0 (None) or 1.                   *)
(***************************************************************************)
EXTENDS Integers, Sequences, FiniteSets, TLC

(***************************************************************************)
(* Python str primitives                                                   *)
(***************************************************************************)

\* The characters of the model in code-point order (str comparison and
\* bracket ranges only use the order).
CharOrder ==
    << " ", "!", "#", "*", "-", ".", "/", "?",
       "A", "D", "E", "M", "R",
       "[", "]", "_",
       "a", "b", "c", "d", "e", "f", "g", "h", "i", "j", "k", "l", "m",
       "n", "o", "p", "q", "r", "s", "t", "u", "v", "w", "x", "y", "z" >>

Ord(c) == CHOOSE i \in 1..Len(CharOrder) : CharOrder[i] = c

\* str.lower() on one character
lower_char(c) ==
    CASE c = "A" -> "a"
      [] c = "D" -> "d"
      [] c = "E" -> "e"
      [] c = "M" -> "m"
      [] c = "R" -> "r"
      [] OTHER   -> c

\* str.lower()
lower(s) == [i \in 1..Len(s) |-> lower_char(s[i])]

\* s[a-1:b] of Python, 1-based inclusive here
Slice(s, a, b) == IF a > b THEN <<>> ELSE SubSeq(s, a, b)

startswith(s, c) == Len(s) >= 1 /\ s[1] = c

endswith(s, c) == Len(s) >= 1 /\ s[Len(s)] = c

\* c in s
contains(s, c) == \E i \in 1..Len(s) : s[i] = c

\* a < b on str (lexicographic on code points)
RECURSIVE StrLess(_, _)
StrLess(a, b) ==
    IF b = <<>> THEN FALSE
    ELSE IF a = <<>> THEN TRUE
    ELSE IF a[1] = b[1] THEN StrLess(Tail(a), Tail(b))
    ELSE Ord(a[1]) < Ord(b[1])

\* s.split(sep): the maximal pieces between separators, empty pieces kept
RECURSIVE split(_, _)
split(s, sep) ==
    IF ~contains(s, sep) THEN <<s>>
    ELSE LET k == CHOOSE i \in 1..Len(s) :
                     s[i] = sep /\ \A j \in 1..(i-1) : s[j] # sep
         IN  <<Slice(s, 1, k-1)>> \o split(Slice(s, k+1, Len(s)), sep)

\* sep.join(parts)
RECURSIVE join(_, _)
join(parts, sep) ==
    IF parts = <<>> THEN <<>>
    ELSE IF Len(parts) = 1 THEN parts[1]
    ELSE parts[1] \o <<sep>> \o join(Tail(parts), sep)

(***************************************************************************)
(* fnmatch.fnmatch (POSIX: normcase is the identity): "*" any run of       *)
(* characters including "/", "?" one character, "[seq]" / "[!seq]" a       *)
(* character class with ranges, an unclosed "[" a literal.                 *)
(***************************************************************************)

\* index of the "]" closing the class opened at pat[j], 0 when unclosed
ClassEnd(pat, j) ==
    LET j1 == IF j+1 <= Len(pat) /\ pat[j+1] = "!" THEN j+2 ELSE j+1
        j2 == IF j1 <= Len(pat) /\ pat[j1] = "]" THEN j1+1 ELSE j1
        C  == {k \in j2..Len(pat) : pat[k] = "]"}
    IN  IF C = {} THEN 0 ELSE CHOOSE k \in C : \A m \in C : k <= m

\* c is one of the characters that body[k..] lists (with x-y ranges)
RECURSIVE ClassMember(_, _, _)
ClassMember(c, body, k) ==
    IF k > Len(body) THEN FALSE
    ELSE IF k+2 <= Len(body) /\ body[k+1] = "-"
         THEN \/ (Ord(body[k]) <= Ord(c) /\ Ord(c) <= Ord(body[k+2]))
              \/ ClassMember(c, body, k+3)
         ELSE c = body[k] \/ ClassMember(c, body, k+1)

InClass(c, stuff) ==
    IF startswith(stuff, "!")
    THEN ~ClassMember(c, Tail(stuff), 1)
    ELSE ClassMember(c, stuff, 1)

RECURSIVE fnmatch_at(_, _, _, _)
fnmatch_at(name, i, pat, j) ==
    IF j > Len(pat) THEN i > Len(name)
    ELSE IF pat[j] = "*"
         THEN \/ fnmatch_at(name, i, pat, j+1)
              \/ (i <= Len(name) /\ fnmatch_at(name, i+1, pat, j))
    ELSE IF pat[j] = "?"
         THEN i <= Len(name) /\ fnmatch_at(name, i+1, pat, j+1)
    ELSE IF pat[j] = "[" /\ ClassEnd(pat, j) # 0
         THEN /\ i <= Len(name)
              /\ InClass(name[i], Slice(pat, j+1, ClassEnd(pat, j) - 1))
              /\ fnmatch_at(name, i+1, pat, ClassEnd(pat, j) + 1)
    ELSE i <= Len(name) /\ name[i] = pat[j] /\ fnmatch_at(name, i+1, pat, j+1)

fnmatch(name, pat) == fnmatch_at(name, 1, pat, 1)

(***************************************************************************)
(* bonsai/utils.py                                                         *)
(***************************************************************************)

\* matches_pattern without the is_dir requirement of a pattern ending in "/"
matches_pattern_no_dir_check(path_str, pattern, is_dir) ==
    LET p1 == IF endswith(pattern, "/")
              THEN Slice(pattern, 1, Len(pattern) - 1)
              ELSE pattern
    IN  IF startswith(p1, "/")
        THEN fnmatch(path_str, Tail(p1))
        ELSE IF contains(p1, "/")
        THEN fnmatch(path_str, p1)
        ELSE \E part \in {split(path_str, "/")[k] :
                              k \in 1..Len(split(path_str, "/"))} :
                 fnmatch(part, p1)

\* matches_pattern with a bare pattern tried on the last segment only
matches_pattern_last_segment(path_str, pattern, is_dir) ==
    IF endswith(pattern, "/") /\ ~is_dir THEN FALSE
    ELSE LET p1 == IF endswith(pattern, "/")
                   THEN Slice(pattern, 1, Len(pattern) - 1)
                   ELSE pattern
         IN  IF startswith(p1, "/")
             THEN fnmatch(path_str, Tail(p1))
             ELSE IF contains(p1, "/")
             THEN fnmatch(path_str, p1)
             ELSE fnmatch(split(path_str, "/")[Len(split(path_str, "/"))], p1)

\* matches_pattern(path_str, pattern, is_dir)
matches_pattern(path_str, pattern, is_dir) ==
    IF endswith(pattern, "/") /\ ~is_dir THEN FALSE
    ELSE LET p1 == IF endswith(pattern, "/")
                   THEN Slice(pattern, 1, Len(pattern) - 1)
                   ELSE pattern
         IN  IF startswith(p1, "/")
             THEN fnmatch(path_str, Tail(p1))
             ELSE IF contains(p1, "/")
             THEN fnmatch(path_str, p1)
             ELSE \E part \in {split(path_str, "/")[k] :
                                   k \in 1..Len(split(path_str, "/"))} :
                      fnmatch(part, p1)

(***************************************************************************)
(* Names, rule lines and patterns used as inputs                           *)
(***************************************************************************)

n_proj == <<"p", "r", "o", "j">>
n_gitignore == <<".", "g", "i", "t", "i", "g", "n", "o", "r", "e">>
n_env == <<".", "e", "n", "v">>
n_env_example == <<".", "e", "n", "v", ".", "e", "x", "a", "m", "p", "l", "e">>
n_git == <<".", "g", "i", "t">>
n_config == <<"c", "o", "n", "f", "i", "g">>
n_debug_log == <<"d", "e", "b", "u", "g", ".", "l", "o", "g">>
n_important_log == <<"i", "m", "p", "o", "r", "t", "a", "n", "t", ".", "l", "o", "g">>
n_src == <<"s", "r", "c">>
n_main_ext == <<"m", "a", "i", "n", ".", "e", "x", "t">>
n_README == <<"R", "E", "A", "D", "M", "E">>
n_readme == <<"r", "e", "a", "d", "m", "e">>
n_nested == <<"n", "e", "s", "t", "e", "d">>
n_deep_log == <<"d", "e", "e", "p", ".", "l", "o", "g">>
n_z_dir == <<"z", "_", "d", "i", "r">>
n_a_file_txt == <<"a", "_", "f", "i", "l", "e", ".", "t", "x", "t">>
n_missing == <<"m", "i", "s", "s", "i", "n", "g">>

p_star_log == <<"*", ".", "l", "o", "g">>
p_important_log == n_important_log
p_env_star == <<".", "e", "n", "v", "*">>
p_env_example == n_env_example
p_src_dir == <<"s", "r", "c", "/">>
p_nested == n_nested
p_src_main_ext == <<"s", "r", "c", "/", "m", "a", "i", "n", ".", "e", "x", "t">>

\* raw lines of a rule file
l_star_log == <<" ">> \o p_star_log \o <<" ">>
l_not_important_log == <<"!">> \o p_important_log
l_env_star == p_env_star
l_not_env_example == <<"!">> \o p_env_example
l_src_dir == p_src_dir
l_comment == <<"#", " ", "l", "o", "g", "s">>

(***************************************************************************)
(* State                                                                   *)
(***************************************************************************)

VARIABLES
    config,           \* the Config dataclass (bonsai/config.py)
    fs,               \* the filesystem: existing path -> [is_dir, size]
    unreadable,       \* directories whose enumeration raises PermissionError
    rule_files,       \* path of a .gitignore file -> its lines
    constructed,      \* TreeProcessor.__init__ has run
    ignore_patterns,  \* TreeProcessor.ignore_patterns
    include_patterns, \* TreeProcessor.include_patterns
    ret               \* the last call and the value it returned

vars == <<config, fs, unreadable, rule_files, constructed,
          ignore_patterns, include_patterns, ret>>

None == <<>>
Some(v) == <<v>>

\* the elements of a list, as a set (set.update(list))
Elems(s) == {s[i] : i \in 1..Len(s)}

(***************************************************************************)
(* pathlib.Path over the modelled filesystem                               *)
(***************************************************************************)

path_name(p) == IF p = <<>> THEN <<>> ELSE p[Len(p)]

\* the entry is a symbolic link whose target is missing: a directory
\* enumeration lists it, exists(), is_dir() and is_file() are false of it
is_dangling(entry) == "link_target" \in DOMAIN entry /\ entry.link_target = None

\* the entry is a symbolic link (link_target: None, or Some(the real path
\* of an existing entry))
is_link(entry) == "link_target" \in DOMAIN entry

\* the number of symbolic links one path lookup follows before it fails
\* with ELOOP (MAXSYMLINKS of the kernel, scaled down)
MaxSymlinks == 2

\* os.stat(path), which follows symbolic links: the real path the lookup
\* ends at from the real directory `real` over the segments `rest`, or None
\* when a segment is missing, a link dangles or too many links were followed
RECURSIVE lookup(_, _, _)
lookup(real, rest, followed) ==
    IF rest = <<>> THEN Some(real)
    ELSE LET q == real \o <<rest[1]>>
         IN  IF q \notin DOMAIN fs THEN None
             ELSE IF ~is_link(fs[q]) THEN lookup(q, Tail(rest), followed)
             ELSE IF is_dangling(fs[q]) \/ followed >= MaxSymlinks THEN None
             ELSE IF fs[q].link_target[1] \notin DOMAIN fs THEN None
             ELSE lookup(fs[q].link_target[1], Tail(rest), followed + 1)

\* the real path of p, or None when stat(p) fails
real_path(p) == lookup(<<>>, p, 0)

\* Path.exists(): stat(p) succeeds (ENOENT, ENOTDIR and ELOOP give False)
path_exists(p) == real_path(p) # None

path_is_dir(p) == path_exists(p) /\ fs[real_path(p)[1]].is_dir

path_is_file(p) == path_exists(p) /\ ~fs[real_path(p)[1]].is_dir

\* [p.parent, p.parent.parent, ..., Path("/")]
RECURSIVE path_parents(_)
path_parents(p) ==
    IF p = <<>> THEN <<>>
    ELSE <<Slice(p, 1, Len(p) - 1)>> \o path_parents(Slice(p, 1, Len(p) - 1))

IsUnder(p, base) == Len(p) >= Len(base) /\ Slice(p, 1, Len(base)) = base

\* str(p.relative_to(base)); the caller handles ValueError (~IsUnder)
relative_to(p, base) ==
    IF p = base THEN <<".">> ELSE join(Slice(p, Len(base) + 1, Len(p)), "/")

\* the entries of the real directory d
RealChildrenOf(d) == {p \in DOMAIN fs : Len(p) = Len(d) + 1 /\ IsUnder(p, d)}

\* dir.iterdir(): dir joined with the names the directory it denotes lists
ChildrenOf(dir) ==
    IF ~path_exists(dir) THEN {}
    ELSE {dir \o <<path_name(p)>> : p \in RealChildrenOf(real_path(dir)[1])}

\* the entries of a set of sibling paths in ascending order of their names
RECURSIVE ByName(_)
ByName(S) ==
    IF S = {} THEN <<>>
    ELSE LET m == CHOOSE x \in S :
                      \A y \in S \ {x} : StrLess(path_name(x), path_name(y))
         IN  <<m>> \o ByName(S \ {m})

Reverse(s) == [i \in 1..Len(s) |-> s[Len(s) + 1 - i]]

\* The orders in which a directory enumeration may deliver its entries
\* (os.scandir order is arbitrary): ascending or descending by name.
EnumOrders == {"asc", "desc"}

\* list(dir.iterdir()) under an enumeration order
iterdir(dir, order) ==
    IF order = "asc" THEN ByName(ChildrenOf(dir)) ELSE Reverse(ByName(ChildrenOf(dir)))

(***************************************************************************)
(* bonsai/utils.py: rule files                                             *)
(***************************************************************************)

\* find_gitignore_files looking in the ancestors only, not in root_path
find_gitignore_files_parents_only(root_path) ==
    SelectSeq([i \in 1..Len(path_parents(root_path)) |->
                  path_parents(root_path)[i] \o <<n_gitignore>>],
              path_exists)

\* find_gitignore_files(root_path)
find_gitignore_files(root_path) ==
    SelectSeq([i \in 1..(Len(path_parents(root_path)) + 1) |->
                  (<<root_path>> \o path_parents(root_path))[i] \o <<n_gitignore>>],
              path_exists)

\* str.strip() (whitespace of the model: the blank)
RECURSIVE lstrip(_)
lstrip(s) == IF startswith(s, " ") THEN lstrip(Tail(s)) ELSE s

strip(s) == Reverse(lstrip(Reverse(lstrip(s))))

\* the loop body of parse_gitignore over the lines it gets to read:
\* <<ignore_patterns, include_patterns>>
RECURSIVE parse_lines(_)
\* the loop body with the "!" of an override line kept
parse_lines_keep_bang(lines) ==
    IF lines = <<>> THEN <<(<<>>), (<<>>)>>
    ELSE LET line == strip(lines[Len(lines)])
             rest == parse_lines(Slice(lines, 1, Len(lines) - 1))
         IN  IF line = <<>> \/ startswith(line, "#") THEN rest
             ELSE IF startswith(line, "!")
                  THEN <<rest[1], Append(rest[2], line)>>
                  ELSE <<Append(rest[1], line), rest[2]>>

parse_lines(lines) ==
    IF lines = <<>> THEN <<(<<>>), (<<>>)>>
    ELSE LET line == strip(lines[Len(lines)])
             rest == parse_lines(Slice(lines, 1, Len(lines) - 1))
         IN  IF line = <<>> \/ startswith(line, "#") THEN rest
             ELSE IF startswith(line, "!")
                  THEN <<rest[1], Append(rest[2], Tail(line))>>
                  ELSE <<Append(rest[1], line), rest[2]>>

\* parse_gitignore(gitignore_path): a file is [lines, fail_at]; fail_at is
\* None, Some(0) when open() raises, Some(k) when reading raises at line k
\* (the lines before it were already appended; the except clause passes).
parse_gitignore(gitignore_path) ==
    LET f == rule_files[gitignore_path]
    IN  IF f.fail_at = None THEN parse_lines(f.lines)
        ELSE parse_lines(Slice(f.lines, 1, f.fail_at[1] - 1))

(***************************************************************************)
(* bonsai/config.py                                                        *)
(***************************************************************************)

\* Config.get_root_path(): root_path is kept resolved
get_root_path == config.root_path

(***************************************************************************)
(* bonsai/processor.py                                                     *)
(***************************************************************************)

\* TreeProcessor._load_ignore_patterns: <<ignore_patterns, include_patterns>>
\* after the call on the empty sets of __init__
load_ignore_patterns ==
    IF ~config.respect_gitignore THEN <<{}, {}>>
    ELSE LET files  == find_gitignore_files(get_root_path)
             parsed == [i \in 1..Len(files) |-> parse_gitignore(files[i])]
         IN  << UNION {Elems(parsed[i][1]) : i \in 1..Len(files)}
                    \cup Elems(config.custom_ignore_patterns),
                UNION {Elems(parsed[i][2]) : i \in 1..Len(files)}
                    \cup Elems(config.force_include_patterns) >>

\* should_ignore with the ignore patterns consulted before the include
\* patterns
should_ignore_ignore_first(path, relative_path) ==
    IF ~config.show_hidden /\ startswith(path_name(path), ".") THEN TRUE
    ELSE IF \E pattern \in ignore_patterns :
                matches_pattern(relative_path, pattern, path_is_dir(path))
         THEN TRUE
    ELSE FALSE

\* should_ignore with the include patterns consulted before the hidden check
should_ignore_include_first(path, relative_path) ==
    IF \E pattern \in include_patterns :
           matches_pattern(relative_path, pattern, path_is_dir(path))
    THEN FALSE
    ELSE IF ~config.show_hidden /\ startswith(path_name(path), ".") THEN TRUE
    ELSE IF \E pattern \in ignore_patterns :
                matches_pattern(relative_path, pattern, path_is_dir(path))
         THEN TRUE
    ELSE FALSE

\* TreeProcessor.should_ignore(path, relative_path)
should_ignore(path, relative_path) ==
    IF ~config.show_hidden /\ startswith(path_name(path), ".") THEN TRUE
    ELSE IF \E pattern \in include_patterns :
                matches_pattern(relative_path, pattern, path_is_dir(path))
         THEN FALSE
    ELSE IF \E pattern \in ignore_patterns :
                matches_pattern(relative_path, pattern, path_is_dir(path))
         THEN TRUE
    ELSE FALSE

\* the sort key without the lower-casing of the name
sort_key_case_sensitive(p) ==
    [not_dir |-> ~path_is_dir(p), lname |-> path_name(p)]

\* the sort key of build_tree: (not p.is_dir(), p.name.lower())
sort_key(p) == [not_dir |-> ~path_is_dir(p), lname |-> lower(path_name(p))]

\* tuple comparison a < b of two sort keys (False < True)
KeyLess(a, b) ==
    \/ (~a.not_dir /\ b.not_dir)
    \/ (a.not_dir = b.not_dir /\ StrLess(a.lname, b.lname))

\* sorted(seq, key=...): stable, entries with equal keys keep their order
RECURSIVE sorted(_)
sorted(seq) ==
    IF seq = <<>> THEN <<>>
    ELSE LET init == sorted(Slice(seq, 1, Len(seq) - 1))
             x    == seq[Len(seq)]
             k    == Cardinality({i \in 1..Len(init) :
                                     ~KeyLess(sort_key(x), sort_key(init[i]))})
         IN  Slice(init, 1, k) \o <<x>> \o Slice(init, k + 1, Len(init))

\* the relative path taken from the immediate parent: the base name
child_relative_path_parent(child_path) == path_name(child_path)

\* the relative path build_tree hands to should_ignore
child_relative_path(child_path) ==
    IF IsUnder(child_path, get_root_path)
    THEN relative_to(child_path, get_root_path)
    ELSE path_name(child_path)

\* get_file_size(path)
get_file_size(path) == fs[real_path(path)[1]].size

RECURSIVE build_tree(_, _, _)
\* build_children without the should_ignore test
RECURSIVE build_children_unfiltered(_, _, _)
build_children_unfiltered(entries, current_depth, order) ==
    IF entries = <<>> THEN <<>>
    ELSE build_tree(entries[1], current_depth + 1, order)
             \o build_children_unfiltered(Tail(entries), current_depth, order)

\* build_children leaving the loop at the first ignored entry (break for
\* continue)
RECURSIVE build_children_break(_, _, _)
build_children_break(entries, current_depth, order) ==
    IF entries = <<>> THEN <<>>
    ELSE IF should_ignore(entries[1], child_relative_path(entries[1]))
         THEN <<>>
         ELSE build_tree(entries[1], current_depth + 1, order)
                  \o build_children_break(Tail(entries), current_depth, order)

\* build_children with the should_ignore test on files only: an ignored
\* directory is entered
RECURSIVE build_children_enter_ignored(_, _, _)
build_children_enter_ignored(entries, current_depth, order) ==
    IF entries = <<>> THEN <<>>
    ELSE LET child_path == entries[1]
             rest == build_children_enter_ignored(Tail(entries), current_depth, order)
         IN  IF /\ ~path_is_dir(child_path)
                /\ should_ignore(child_path, child_relative_path(child_path))
             THEN rest
             ELSE build_tree(child_path, current_depth + 1, order) \o rest

\* the children list the loop of build_tree builds from the sorted entries
RECURSIVE build_children(_, _, _)
build_children(entries, current_depth, order) ==
    IF entries = <<>> THEN <<>>
    ELSE LET child_path == entries[1]
             rest == build_children(Tail(entries), current_depth, order)
         IN  IF should_ignore(child_path, child_relative_path(child_path))
             THEN rest
             ELSE build_tree(child_path, current_depth + 1, order) \o rest

\* make_node giving no node for a directory that cannot be enumerated
make_node_unreadable_dropped(root_path, current_depth, order) ==
    IF path_is_dir(root_path) /\ root_path \in unreadable THEN None
    ELSE Some([ path     |-> root_path,
                name     |-> path_name(root_path),
                is_dir   |-> path_is_dir(root_path),
                size     |-> IF path_is_file(root_path)
                             THEN get_file_size(root_path) ELSE 0,
                children |-> IF path_is_dir(root_path)
                             THEN build_children(sorted(iterdir(root_path, order)),
                                                 current_depth, order)
                             ELSE <<>> ])

\* the node build_tree makes once the existence and depth checks have passed
make_node(root_path, current_depth, order) ==
    Some([ path     |-> root_path,
           name     |-> path_name(root_path),
           is_dir   |-> path_is_dir(root_path),
           size     |-> IF path_is_file(root_path)
                        THEN get_file_size(root_path) ELSE 0,
           children |-> IF path_is_dir(root_path) /\ root_path \notin unreadable
                        THEN build_children(sorted(iterdir(root_path, order)),
                                            current_depth, order)
                        ELSE <<>> ])

\* build_tree with the depth test current_depth >= max_depth
build_tree_depth_ge(root_path, current_depth, order) ==
    IF ~path_exists(root_path) THEN None
    ELSE IF config.max_depth # None /\ current_depth >= config.max_depth[1]
    THEN None
    ELSE make_node(root_path, current_depth, order)

\* build_tree without the depth test
build_tree_no_depth_limit(root_path, current_depth, order) ==
    IF ~path_exists(root_path) THEN None
    ELSE make_node(root_path, current_depth, order)

\* build_tree without the test root_path.exists()
build_tree_no_exists_check(root_path, current_depth, order) ==
    IF config.max_depth # None /\ current_depth > config.max_depth[1]
    THEN None
    ELSE make_node(root_path, current_depth, order)

\* TreeProcessor.build_tree(root_path, current_depth): None or Some(TreeNode)
build_tree(root_path, current_depth, order) ==
    IF ~path_exists(root_path) THEN None
    ELSE IF config.max_depth # None /\ current_depth > config.max_depth[1]
    THEN None
    ELSE make_node(root_path, current_depth, order)

\* get_file_icon(path): the icon table is keyed by directory / file kind here
get_file_icon(path) == IF path_is_dir(path) THEN "icon:dir" ELSE "icon:file"

\* format_file_size(size) for sizes below 1024: f"{size:.1f}B"
format_file_size(size) == <<size, ".0", "B">>

\* one line of format_tree, kept as the parts its f-strings join:
\* prefix, connector, icon, name, "/", " (size)", colour; the indent and
\* connector glyphs are written in ASCII.
format_line(node, prefix, is_last) ==
    [ prefix    |-> prefix,
      connector |-> IF is_last THEN "+-- " ELSE "|-- ",
      icon      |-> IF config.use_icons THEN Some(get_file_icon(node.path)) ELSE None,
      name      |-> node.name,
      slash     |-> node.is_dir,
      size      |-> IF config.show_size /\ ~node.is_dir
                    THEN Some(format_file_size(node.size)) ELSE None,
      color     |-> IF config.color_output
                    THEN Some(IF node.is_dir THEN "blue" ELSE "white") ELSE None ]

RECURSIVE format_tree(_, _, _)
\* the loop of format_tree over node.children from index i on
RECURSIVE format_children(_, _, _)
format_children(children, i, child_prefix) ==
    IF i > Len(children) THEN <<>>
    ELSE format_tree(children[i], child_prefix, i = Len(children))
             \o format_children(children, i + 1, child_prefix)

\* TreeProcessor.format_tree(node, prefix, is_last)
format_tree(node, prefix, is_last) ==
    <<format_line(node, prefix, is_last)>>
        \o format_children(node.children, 1,
                           Append(prefix, IF is_last THEN "    " ELSE "|   "))

\* the single line generate_tree returns when build_tree returns None
ErrorLine(root_path) == [error |-> "Error: Could not access", path |-> root_path]

\* TreeProcessor.generate_tree()
generate_tree(order) ==
    LET tree == build_tree(get_root_path, 0, order)
    IN  IF tree = None THEN <<ErrorLine(get_root_path)>>
        ELSE format_tree(tree[1], <<>>, TRUE)

\* TreeProcessor._node_to_dict(node): "children" only when there are some
RECURSIVE node_to_dict(_)
node_to_dict(node) ==
    IF node.children = <<>>
    THEN [name |-> node.name, path |-> node.path, is_dir |-> node.is_dir,
          size |-> node.size]
    ELSE [name |-> node.name, path |-> node.path, is_dir |-> node.is_dir,
          size |-> node.size,
          children |-> [i \in 1..Len(node.children) |->
                           node_to_dict(node.children[i])]]

\* the document generate_json returns when build_tree returns None
ErrorDict(root_path) == [error |-> "Could not access", path |-> root_path]

\* TreeProcessor.generate_json()
generate_json(order) ==
    LET tree == build_tree(get_root_path, 0, order)
    IN  IF tree = None THEN ErrorDict(get_root_path) ELSE node_to_dict(tree[1])

(***************************************************************************)
(* Inputs                                                                  *)
(***************************************************************************)

\* longest rule file, in lines
MaxRules == 2
\* largest max_depth configured (--max-depth takes any int, so -1 as well)
MaxDepthCfg == 2
\* largest current_depth build_tree is called with
MaxCallDepth == 1

\* the lists of at most n entries of pool, in pool order
SubLists(pool, n) ==
    LET Pick(I) == SelectSeq(pool, LAMBDA x : \E i \in I : pool[i] = x)
    IN  {Pick(I) : I \in {J \in SUBSET (1..Len(pool)) : Cardinality(J) <= n}}

RuleLinePool ==
    <<l_star_log, l_not_important_log, l_env_star, l_not_env_example, l_src_dir>>

\* the values of Config.custom_ignore_patterns (--ignore)
CustomIgnoreLists == {<<>>, <<p_nested>>}

\* the values of Config.force_include_patterns (--include)
ForceIncludeLists == {<<>>, <<p_env_star>>}

RootPath == <<n_proj>>

Dir == [is_dir |-> TRUE, size |-> 0]
File(n) == [is_dir |-> FALSE, size |-> n]

\* a project directory /proj
ProjectFS ==
    ( <<>> :> Dir ) @@
    ( <<n_proj>> :> Dir ) @@
    ( <<n_proj, n_gitignore>> :> File(3) ) @@
    ( <<n_proj, n_env>> :> File(1) ) @@
    ( <<n_proj, n_env_example>> :> File(1) ) @@
    ( <<n_proj, n_git>> :> Dir ) @@
    ( <<n_proj, n_git, n_config>> :> File(2) ) @@
    ( <<n_proj, n_debug_log>> :> File(5) ) @@
    ( <<n_proj, n_important_log>> :> File(4) ) @@
    ( <<n_proj, n_src>> :> Dir ) @@
    ( <<n_proj, n_src, n_main_ext>> :> File(7) ) @@
    ( <<n_proj, n_src, n_README>> :> File(6) ) @@
    ( <<n_proj, n_src, n_readme>> :> File(8) ) @@
    ( <<n_proj, n_src, n_nested>> :> Dir ) @@
    ( <<n_proj, n_src, n_nested, n_deep_log>> :> File(9) ) @@
    ( <<n_proj, n_z_dir>> :> Dir ) @@
    ( <<n_proj, n_a_file_txt>> :> File(0) )

\* a root with one subdirectory that holds one file, and no rule file
ExampleFS ==
    ( <<>> :> Dir ) @@
    ( <<n_proj>> :> Dir ) @@
    ( <<n_proj, n_src>> :> Dir ) @@
    ( <<n_proj, n_src, n_main_ext>> :> File(7) )

\* the paths the calls are made with
CallPaths == {RootPath, <<n_proj, n_src>>, <<n_proj, n_missing>>}

NoCall == [op |-> "none", path |-> <<>>, rel |-> <<>>, depth |-> 0,
           order |-> "asc", value |-> None]

Init ==
    /\ config \in
         [ root_path : {RootPath},
           max_depth : {None} \cup {Some(d) : d \in (-1)..MaxDepthCfg},
           show_hidden : BOOLEAN,
           use_icons : {FALSE},
           show_size : {FALSE},
           color_output : {TRUE},
           respect_gitignore : BOOLEAN,
           custom_ignore_patterns : CustomIgnoreLists,
           force_include_patterns : ForceIncludeLists ]
    /\ \/ /\ fs = ProjectFS
          /\ unreadable \in {{}, {<<n_proj, n_src>>}}
          \* with respect_gitignore off no rule file is opened: one content
          \* stands for all of them
          /\ rule_files \in
               [ {<<n_proj, n_gitignore>>} ->
                   [lines : IF config.respect_gitignore
                            THEN SubLists(RuleLinePool, MaxRules) ELSE {<<>>},
                    fail_at : {None}] ]
       \/ /\ fs = ExampleFS
          /\ unreadable = {}
          /\ rule_files = <<>>
    /\ constructed = FALSE
    /\ ignore_patterns = {}
    /\ include_patterns = {}
    /\ ret = NoCall

(***************************************************************************)
(* Operations                                                              *)
(***************************************************************************)

\* TreeProcessor.__init__(config)
TreeProcessorInit ==
    /\ ~constructed
    /\ constructed' = TRUE
    /\ ignore_patterns' = load_ignore_patterns[1]
    /\ include_patterns' = load_ignore_patterns[2]
    /\ UNCHANGED <<config, fs, unreadable, rule_files, ret>>

\* processor.should_ignore(path, relative_path) on an entry below the root
ShouldIgnore ==
    /\ constructed
    /\ ret.op = "none"
    /\ \E path \in {p \in DOMAIN fs : IsUnder(p, get_root_path) /\ p # get_root_path} :
         ret' = [op |-> "should_ignore", path |-> path,
                 rel |-> relative_to(path, get_root_path), depth |-> 0,
                 order |-> "asc",
                 value |-> should_ignore(path, relative_to(path, get_root_path))]
    /\ UNCHANGED <<config, fs, unreadable, rule_files, constructed,
                   ignore_patterns, include_patterns>>

\* a build_tree call that empties the ignore set as it goes
BuildTree_clearing_patterns ==
    /\ constructed
    /\ ret.op = "none"
    /\ \E path \in CallPaths, depth \in 0..MaxCallDepth, order \in EnumOrders :
         ret' = [op |-> "build_tree", path |-> path, rel |-> <<>>,
                 depth |-> depth, order |-> order,
                 value |-> build_tree(path, depth, order)]
    /\ ignore_patterns' = {}
    /\ UNCHANGED <<config, fs, unreadable, rule_files, constructed,
                   include_patterns>>

\* processor.build_tree(root_path, current_depth)
BuildTree ==
    /\ constructed
    /\ ret.op = "none"
    /\ \E path \in CallPaths, depth \in 0..MaxCallDepth, order \in EnumOrders :
         ret' = [op |-> "build_tree", path |-> path, rel |-> <<>>,
                 depth |-> depth, order |-> order,
                 value |-> build_tree(path, depth, order)]
    /\ UNCHANGED <<config, fs, unreadable, rule_files, constructed,
                   ignore_patterns, include_patterns>>

\* processor.generate_tree()
GenerateTree ==
    /\ constructed
    /\ ret.op = "none"
    /\ \E order \in EnumOrders :
         ret' = [op |-> "generate_tree", path |-> get_root_path, rel |-> <<>>,
                 depth |-> 0, order |-> order, value |-> generate_tree(order)]
    /\ UNCHANGED <<config, fs, unreadable, rule_files, constructed,
                   ignore_patterns, include_patterns>>

\* processor.generate_json()
GenerateJson ==
    /\ constructed
    /\ ret.op = "none"
    /\ \E order \in EnumOrders :
         ret' = [op |-> "generate_json", path |-> get_root_path, rel |-> <<>>,
                 depth |-> 0, order |-> order, value |-> generate_json(order)]
    /\ UNCHANGED <<config, fs, unreadable, rule_files, constructed,
                   ignore_patterns, include_patterns>>

\* the caller takes the returned value; the processor is ready for the
\* next call
Return ==
    /\ ret.op # "none"
    /\ ret' = NoCall
    /\ UNCHANGED <<config, fs, unreadable, rule_files, constructed,
                   ignore_patterns, include_patterns>>

Next ==
    \/ TreeProcessorInit
    \/ ShouldIgnore
    \/ BuildTree
    \/ GenerateTree
    \/ GenerateJson
    \/ Return

Spec == Init /\ [][Next]_vars

(***************************************************************************)
(* Properties                                                              *)
(***************************************************************************)

\* the entry is suppressed as a dotfile
HiddenDotfile(path) == ~config.show_hidden /\ startswith(path_name(path), ".")

\* some pattern of the set matches the root-relative path of the entry
MatchesAny(patterns, path) ==
    \E pattern \in patterns :
        matches_pattern(relative_to(path, get_root_path), pattern, path_is_dir(path))

\* C1: in should_ignore an entry that is not suppressed as a dotfile and that
\* a pattern of the override set matches is not ignored, whatever the ignore
\* set matches; with ignore {*.log} and override {important.log}, debug.log
\* is ignored and important.log is not.
C1_OverridePrecedence ==
    ret.op = "should_ignore" =>
        /\ (~HiddenDotfile(ret.path) /\ MatchesAny(include_patterns, ret.path))
               => ret.value = FALSE
        /\ (ignore_patterns = {p_star_log} /\ include_patterns = {p_important_log})
               => /\ ret.path = <<n_proj, n_debug_log>> => ret.value = TRUE
                  /\ ret.path = <<n_proj, n_important_log>> => ret.value = FALSE

\* should_ignore has answered for important.log, which an ignore pattern and
\* an override pattern both match
C1_Witness ==
    /\ ret.op = "should_ignore"
    /\ ret.path = <<n_proj, n_important_log>>
    /\ ignore_patterns = {p_star_log}
    /\ include_patterns = {p_important_log}
    /\ MatchesAny(ignore_patterns, ret.path)
    /\ ret.value = FALSE

RECURSIVE NodesOf(_)
NodesOf(node) ==
    {node} \cup UNION {NodesOf(node.children[i]) : i \in 1..Len(node.children)}

\* the paths of the nodes of an Optional tree
PathsOf(tree) == IF tree = None THEN {} ELSE {n.path : n \in NodesOf(tree[1])}

\* C3: with show_hidden false, ignore rule .env* and override !.env.example,
\* should_ignore returns false for .env.example and .env.example is in the
\* tree build_tree builds from the root.
C3_NegatedDotfileKept ==
    (~config.show_hidden /\ p_env_star \in ignore_patterns
        /\ p_env_example \in include_patterns)
    => /\ (ret.op = "should_ignore" /\ ret.path = <<n_proj, n_env_example>>)
              => ret.value = FALSE
       /\ (ret.op = "build_tree" /\ ret.path = get_root_path /\ ret.depth = 0
              /\ config.max_depth = None)
              => <<n_proj, n_env_example>> \in PathsOf(ret.value)

\* the entries strictly below the traversal root
BelowRoot == {p \in DOMAIN fs : IsUnder(p, get_root_path) /\ p # get_root_path}

\* the directories strictly between the traversal root and the entry
AncestorsBelowRoot(p) ==
    {Slice(p, 1, k) : k \in (Len(get_root_path) + 1)..(Len(p) - 1)}

\* depth of an entry, the traversal root being at depth 0
DepthOf(p) == Len(p) - Len(get_root_path)

\* build_tree was called for a path that exists, at a depth within the limit
BuiltWithinLimit ==
    /\ ret.op = "build_tree"
    /\ path_exists(ret.path)
    /\ (config.max_depth = None \/ ret.depth <= config.max_depth[1])

PassesRules(p) ==
    ~MatchesAny(ignore_patterns, p) \/ MatchesAny(include_patterns, p)

\* a build from the traversal root at depth 0 with no depth limit
FullBuild ==
    /\ ret.op = "build_tree"
    /\ ret.path = get_root_path
    /\ ret.depth = 0
    /\ config.max_depth = None

\* C5 as stated: with no depth limit every file under the root with a
\* non-dot name whose root-relative path passes the pattern rules is a node
\* of the built tree.
C5_Original ==
    FullBuild =>
        \A p \in BelowRoot :
            (path_is_file(p) /\ ~startswith(path_name(p), ".") /\ PassesRules(p))
            => p \in PathsOf(ret.value)

\* C5 amended: with no depth limit every file under the root is a node of
\* the built tree when the file and each directory between the root and the
\* file have a non-dot name and pass the pattern rules, and each of those
\* directories can be enumerated; with no rules, root/src/main.ext gives
\* root -> src -> main.ext.
C5_Completeness ==
    FullBuild =>
        /\ \A p \in BelowRoot :
               (/\ path_is_file(p)
                /\ \A q \in AncestorsBelowRoot(p) \cup {p} :
                       ~startswith(path_name(q), ".") /\ PassesRules(q)
                /\ \A q \in AncestorsBelowRoot(p) : q \notin unreadable
                /\ get_root_path \notin unreadable)
               => p \in PathsOf(ret.value)
        /\ (ignore_patterns = {} /\ include_patterns = {} /\ unreadable = {})
               => \E i \in 1..Len(ret.value[1].children) :
                      LET c == ret.value[1].children[i]
                      IN  /\ c.path = <<n_proj, n_src>>
                          /\ \E j \in 1..Len(c.children) :
                                 c.children[j].path = <<n_proj, n_src, n_main_ext>>

\* a full build has put a file of a subdirectory into the tree, with rules loaded that
\* hide other entries
C5_Witness ==
    /\ FullBuild
    /\ ignore_patterns # {}
    /\ <<n_proj, n_src, n_main_ext>> \in PathsOf(ret.value)
    /\ <<n_proj, n_debug_log>> \notin PathsOf(ret.value)

\* the child nodes of a node whose path is p
ChildNodes(node, p) ==
    {node.children[i] : i \in {j \in 1..Len(node.children) : node.children[j].path = p}}

\* a build from the traversal root at depth 0, the root holding the
\* subdirectory src, which is not ignored, can be enumerated and holds a
\* file that is not ignored
SubdirCase ==
    /\ ret.op = "build_tree"
    /\ ret.path = get_root_path
    /\ ret.depth = 0
    /\ get_root_path \notin unreadable
    /\ <<n_proj, n_src>> \notin unreadable
    /\ ~should_ignore(<<n_proj, n_src>>, child_relative_path(<<n_proj, n_src>>))
    /\ ~should_ignore(<<n_proj, n_src, n_main_ext>>,
                      child_relative_path(<<n_proj, n_src, n_main_ext>>))

\* C6 as stated: with max_depth = 0, build_tree(root, 0) returns a tree in
\* which the subdirectory is a child of the root, with no children.
C6_Original ==
    (SubdirCase /\ config.max_depth = Some(0))
    => /\ ret.value # None
       /\ \E c \in ChildNodes(ret.value[1], <<n_proj, n_src>>) : c.children = <<>>

\* C6 amended: with max_depth = 0, build_tree(root, 0) returns the root node
\* with an empty children sequence (the subdirectory is not in the tree); it
\* is with max_depth = 1 that the subdirectory is a child of the root with an
\* empty children sequence.
C6_DepthBoundExample ==
    /\ (SubdirCase /\ config.max_depth = Some(0))
       => /\ ret.value # None
          /\ ret.value[1].path = get_root_path
          /\ ret.value[1].children = <<>>
    /\ (SubdirCase /\ config.max_depth = Some(1))
       => /\ ret.value # None
          /\ ChildNodes(ret.value[1], <<n_proj, n_src>>) # {}
          /\ \A c \in ChildNodes(ret.value[1], <<n_proj, n_src>>) : c.children = <<>>

\* the root that holds exactly one subdirectory holding one file was built
\* with max_depth = 0
C6_Witness ==
    /\ SubdirCase
    /\ fs = ExampleFS
    /\ config.max_depth = Some(0)
    /\ ret.value # None
    /\ ret.value[1].children = <<>>

\* the entry and every directory between the root and it are not ignored, and
\* the root and those directories can be enumerated
Reachable(p) ==
    /\ \A q \in AncestorsBelowRoot(p) \cup {p} :
           ~should_ignore(q, child_relative_path(q))
    /\ \A q \in AncestorsBelowRoot(p) \cup {get_root_path} : q \notin unreadable

\* C7: with max_depth = d, build_tree called with current_depth > d returns
\* None; the tree built from the root at depth 0 has no node deeper than d,
\* has every entry of depth 1..d that is not ignored (nor below an ignored or
\* unreadable directory), and every directory node at depth d has no
\* children.
C7_DepthInvariant ==
    (ret.op = "build_tree" /\ config.max_depth # None) =>
        LET d == config.max_depth[1]
        IN  /\ ret.depth > d => ret.value = None
            /\ (ret.path = get_root_path /\ ret.depth = 0 /\ ret.value # None) =>
                   /\ \A n \in NodesOf(ret.value[1]) : DepthOf(n.path) <= d
                   /\ \A p \in BelowRoot :
                          (DepthOf(p) <= d /\ Reachable(p)) => p \in PathsOf(ret.value)
                   /\ \A n \in NodesOf(ret.value[1]) :
                          (n.is_dir /\ DepthOf(n.path) = d) => n.children = <<>>

\* with max_depth = 1 the root was built with children, among them src with
\* no children although src holds entries that are not ignored
C7_Witness ==
    /\ ret.op = "build_tree"
    /\ config.max_depth = Some(1)
    /\ ret.path = get_root_path
    /\ ret.depth = 0
    /\ ret.value # None
    /\ Len(ret.value[1].children) > 1
    /\ Reachable(<<n_proj, n_src, n_main_ext>>)
    /\ \E c \in ChildNodes(ret.value[1], <<n_proj, n_src>>) : c.children = <<>>

\* C8: for every max_depth the configuration accepts, build_tree on the
\* existing root at depth 0 returns a node, and generate_tree / generate_json
\* do not return the "Could not access" sentinel.
C8_RootNeverDepthFiltered ==
    /\ (ret.op = "build_tree" /\ ret.path = get_root_path /\ ret.depth = 0
           /\ path_exists(get_root_path))
       => ret.value # None
    /\ (ret.op = "generate_tree" /\ path_exists(get_root_path))
       => ret.value # <<ErrorLine(get_root_path)>>
    /\ (ret.op = "generate_json" /\ path_exists(get_root_path))
       => ret.value # ErrorDict(get_root_path)

\* the children of the node are ordered by (is-file, lower-cased name)
ChildrenOrdered(node) ==
    \A i, j \in 1..Len(node.children) :
        i < j =>
            LET a == node.children[i]
                b == node.children[j]
            IN  /\ ~(~a.is_dir /\ b.is_dir)
                /\ a.is_dir = b.is_dir => ~StrLess(lower(b.name), lower(a.name))

\* C9: in every tree build_tree returns, the children of every node are
\* ordered by (is-file, lower-cased name): directories before files, each
\* group in case-insensitive ascending order; z_dir precedes a_file.txt.
C9_OrderingInvariant ==
    (ret.op = "build_tree" /\ ret.value # None) =>
        /\ \A n \in NodesOf(ret.value[1]) : ChildrenOrdered(n)
        /\ \A i, j \in 1..Len(ret.value[1].children) :
               (/\ ret.value[1].children[i].path = <<n_proj, n_z_dir>>
                /\ ret.value[1].children[j].path = <<n_proj, n_a_file_txt>>) => i < j

\* the root was built with z_dir and a_file.txt among its children, and src
\* with README, readme and main.ext, while other entries were filtered out
C9_Witness ==
    /\ ret.op = "build_tree"
    /\ ret.path = get_root_path
    /\ ret.value # None
    /\ {<<n_proj, n_z_dir>>, <<n_proj, n_a_file_txt>>, <<n_proj, n_src, n_README>>,
        <<n_proj, n_src, n_readme>>, <<n_proj, n_src, n_main_ext>>}
           \subseteq PathsOf(ret.value)
    /\ <<n_proj, n_debug_log>> \notin PathsOf(ret.value)

\* C10: a build returns the tree that a build of the same path at the same
\* depth returns under any other order of the directory enumeration.
C10_BuildDeterministic ==
    ret.op = "build_tree" =>
        \A order \in EnumOrders : build_tree(ret.path, ret.depth, order) = ret.value

(***************************************************************************)
(* The matcher on its own: calls of matches_pattern(path_str, pattern,     *)
(* is_dir) with relative paths and patterns of the tests                   *)
(***************************************************************************)

n_build == <<"b", "u", "i", "l", "d">>
n_other == <<"o", "t", "h", "e", "r">>
n_node_modules == <<"n", "o", "d", "e", "_", "m", "o", "d", "u", "l", "e", "s">>
n_test_py == <<"t", "e", "s", "t", ".", "p", "y">>
n_file_py == <<"f", "i", "l", "e", ".", "p", "y">>
n_config_json == <<"c", "o", "n", "f", "i", "g", ".", "j", "s", "o", "n">>
n_temp == <<"t", "e", "m", "p">>
n_cache_txt == <<"c", "a", "c", "h", "e", ".", "t", "x", "t">>

p_star_py == <<"*", ".", "p", "y">>
p_star_json == <<"*", ".", "j", "s", "o", "n">>
p_q_rc == <<"?", "r", "c">>
p_class_star == <<"[", "s", "t", "]", "*">>
p_src_star_py == <<"s", "r", "c", "/", "*", ".", "p", "y">>
p_src_glob_py == <<"s", "r", "c", "/", "*", "*", "/", "*", ".", "p", "y">>
p_src_nested == <<"s", "r", "c", "/", "n", "e", "s", "t", "e", "d">>
p_star_test_py == <<"*", "/", "t", "e", "s", "t", ".", "p", "y">>
p_temp_dir == <<"t", "e", "m", "p", "/">>
p_build_dir2 == <<"b", "u", "i", "l", "d", "/", "/">>

\* most segments of a relative path
MaxSegs == 3

\* names of directories, and names of any entry
DirNames == {n_src, n_other, n_nested, n_build, n_node_modules}
EntryNames == DirNames \cup {n_test_py, n_file_py, n_config_json}

\* the sequences of length n over S
SeqsOf(S, n) == [1..n -> S]

\* the relative paths: directories above an entry, as lists of segments
RelPaths ==
    UNION {{Append(ds, e) : ds \in SeqsOf(DirNames, k), e \in EntryNames} :
               k \in 0..(MaxSegs - 1)}

\* the pattern bodies, each also taken with a leading "/" and a trailing "/"
PatternBodies ==
    {n_build, n_src, n_node_modules, n_config_json, p_star_py, p_star_json,
     p_q_rc, p_class_star, p_src_star_py, p_src_glob_py, p_src_nested,
     p_star_test_py}

MatchPatterns ==
    {lead \o b \o trail :
         lead \in {<<>>, <<"/">>}, b \in PatternBodies, trail \in {<<>>, <<"/">>}}
    \cup {p_build_dir2}

\* the configuration of Config's defaults on the example tree
DefaultConfig ==
    [ root_path |-> RootPath, max_depth |-> None, show_hidden |-> FALSE,
      use_icons |-> FALSE, show_size |-> FALSE, color_output |-> TRUE,
      respect_gitignore |-> TRUE, custom_ignore_patterns |-> <<>>,
      force_include_patterns |-> <<>> ]

MatchInit ==
    /\ config = DefaultConfig
    /\ fs = ExampleFS
    /\ unreadable = {}
    /\ rule_files = <<>>
    /\ constructed = FALSE
    /\ ignore_patterns = {}
    /\ include_patterns = {}
    /\ ret = NoCall

\* matches_pattern(path_str, pattern, is_dir); parts are the segments the
\* caller joined into path_str
MatchesPattern ==
    /\ ret.op = "none"
    /\ \E parts \in RelPaths, pattern \in MatchPatterns, is_dir \in BOOLEAN :
         ret' = [op |-> "matches_pattern", parts |-> parts,
                 path_str |-> join(parts, "/"), pattern |-> pattern,
                 is_dir |-> is_dir,
                 value |-> matches_pattern(join(parts, "/"), pattern, is_dir)]
    /\ UNCHANGED <<config, fs, unreadable, rule_files, constructed,
                   ignore_patterns, include_patterns>>

MatchNext ==
    \/ MatchesPattern
    \/ Return

SpecMatch == MatchInit /\ [][MatchNext]_vars

\* rules 2 to 4 of the matcher on a pattern p without its trailing "/":
\* anchored, with an inner "/", bare
MatchesRest(parts, p) ==
    IF startswith(p, "/") THEN fnmatch(join(parts, "/"), Tail(p))
    ELSE IF contains(p, "/") THEN fnmatch(join(parts, "/"), p)
    ELSE \E k \in 1..Len(parts) : fnmatch(parts[k], p)

C12_StarWithinSegment ==
    (ret.op = "matches_pattern" /\ ret.pattern = p_src_star_py) =>
        /\ ret.parts = <<n_src, n_test_py>> => ret.value = TRUE
        /\ ret.parts = <<n_src, n_nested, n_test_py>> => ret.value = FALSE
        /\ ret.parts = <<n_test_py>> => ret.value = FALSE

\* C13: a pattern "/" \o P, P without "/", matches only relative paths of
\* exactly one segment, and that segment matches P, for literal P and P with
\* wildcards alike; /config.json matches config.json and not
\* src/config.json.
C13_AnchoredToRoot ==
    (/\ ret.op = "matches_pattern"
     /\ startswith(ret.pattern, "/")
     /\ ~contains(Tail(ret.pattern), "/")) =>
        /\ ret.value = (Len(ret.parts) = 1 /\ fnmatch(ret.parts[1], Tail(ret.pattern)))
        /\ ret.pattern = <<"/">> \o n_config_json =>
               /\ ret.parts = <<n_config_json>> => ret.value = TRUE
               /\ ret.parts = <<n_src, n_config_json>> => ret.value = FALSE

\* C14: for a pattern without "/", matches_pattern is true exactly when a
\* segment of the relative path matches the pattern; node_modules matches at
\* every nesting depth, and every path with a segment of that name.
C14_BareAnySegment ==
    (ret.op = "matches_pattern" /\ ~contains(ret.pattern, "/")) =>
        /\ ret.value = (\E k \in 1..Len(ret.parts) : fnmatch(ret.parts[k], ret.pattern))
        /\ (ret.pattern = n_node_modules
            /\ \E k \in 1..Len(ret.parts) : ret.parts[k] = n_node_modules)
               => ret.value = TRUE

\* node_modules was tried on src/node_modules/test.py: the segment in the
\* middle matches, the last one does not
C14_Witness ==
    /\ ret.op = "matches_pattern"
    /\ ret.pattern = n_node_modules
    /\ ret.parts = <<n_src, n_node_modules, n_test_py>>
    /\ ~fnmatch(n_test_py, ret.pattern)
    /\ ret.value = TRUE

\* C15: src/ matches the directory src at the root level, does not match
\* the file src/file.py, and does not match the directory other/src.
C15_DirPatternRootLevel ==
    (ret.op = "matches_pattern" /\ ret.pattern = p_src_dir) =>
        /\ (ret.parts = <<n_src>> /\ ret.is_dir) => ret.value = TRUE
        /\ (ret.parts = <<n_src, n_file_py>> /\ ~ret.is_dir) => ret.value = FALSE
        /\ (ret.parts = <<n_other, n_src>> /\ ret.is_dir) => ret.value = FALSE

\* C17: src/**/*.py matches src/test.py and src/nested/test.py, and does
\* not match other/test.py.
C17_RecursiveGlob ==
    (ret.op = "matches_pattern" /\ ret.pattern = p_src_glob_py) =>
        /\ ret.parts = <<n_src, n_test_py>> => ret.value = TRUE
        /\ ret.parts = <<n_src, n_nested, n_test_py>> => ret.value = TRUE
        /\ ret.parts = <<n_other, n_test_py>> => ret.value = FALSE

(***************************************************************************)
(* The filter on a tree with a temp directory: --ignore "*.log" "temp/"    *)
(* and --include "important.log"                                           *)
(***************************************************************************)

\* a project directory with a temp directory and no rule file
FilterFS ==
    ( <<>> :> Dir ) @@
    ( <<n_proj>> :> Dir ) @@
    ( <<n_proj, n_env>> :> File(1) ) @@
    ( <<n_proj, n_a_file_txt>> :> File(0) ) @@
    ( <<n_proj, n_debug_log>> :> File(5) ) @@
    ( <<n_proj, n_important_log>> :> File(4) ) @@
    ( <<n_proj, n_temp>> :> Dir ) @@
    ( <<n_proj, n_temp, n_cache_txt>> :> File(2) )

FilterIgnorePool == <<p_star_log, p_temp_dir>>

FilterInit ==
    /\ config \in
         [ root_path : {RootPath},
           max_depth : {None},
           show_hidden : BOOLEAN,
           use_icons : {FALSE},
           show_size : {FALSE},
           color_output : {TRUE},
           respect_gitignore : BOOLEAN,
           custom_ignore_patterns : SubLists(FilterIgnorePool, Len(FilterIgnorePool)),
           force_include_patterns : {<<>>, <<p_important_log>>} ]
    /\ fs = FilterFS
    /\ unreadable = {}
    /\ rule_files = <<>>
    /\ constructed = FALSE
    /\ ignore_patterns = {}
    /\ include_patterns = {}
    /\ ret = NoCall

FilterNext ==
    \/ TreeProcessorInit
    \/ ShouldIgnore
    \/ Return

SpecFilter == FilterInit /\ [][FilterNext]_vars

\* C16: with the ignore patterns {*.log, temp/} and the override
\* {important.log}, should_ignore returns true for the file temp/cache.txt
\* beneath the directory the pattern temp/ names.
C16_BeneathIgnoredDirectory ==
    (/\ ret.op = "should_ignore"
     /\ ignore_patterns = {p_star_log, p_temp_dir}
     /\ include_patterns = {p_important_log}
     /\ ret.path = <<n_proj, n_temp, n_cache_txt>>) => ret.value = TRUE

(***************************************************************************)
(* The rule-file parser on its own: parse_gitignore on files of a few      *)
(* lines, readable or failing at open() or while being read                *)
(***************************************************************************)

l_blank == <<>>
l_spaces == <<" ", " ">>
l_indented_comment == <<" ", "#", " ", "x">>
l_bang_bang == <<"!", "!", "x">>
l_bang == <<"!">>
l_bang_space == <<"!", " ", "y", " ">>
l_anchored == <<"/", "a", "b", "s">>

\* longest rule file parsed on its own, in lines
MaxLines == 2

ParseLinePool ==
    {l_star_log, l_not_important_log, l_src_dir, l_comment, l_blank, l_spaces,
     l_indented_comment, l_bang_bang, l_bang, l_bang_space, l_anchored}

\* the rule files: every list of at most MaxLines lines, with every point of
\* failure
ParseFiles ==
    UNION {{[lines |-> ls, fail_at |-> f] :
                ls \in SeqsOf(ParseLinePool, n),
                f \in {None} \cup {Some(k) : k \in 0..n}} : n \in 0..MaxLines}

ParseInit ==
    /\ config = DefaultConfig
    /\ fs = ProjectFS
    /\ unreadable = {}
    /\ rule_files \in [{<<n_proj, n_gitignore>>} -> ParseFiles]
    /\ constructed = FALSE
    /\ ignore_patterns = {}
    /\ include_patterns = {}
    /\ ret = NoCall

\* parse_gitignore(gitignore_path)
ParseGitignore ==
    /\ ret.op = "none"
    /\ \E path \in DOMAIN rule_files :
         ret' = [op |-> "parse_gitignore", path |-> path,
                 value |-> parse_gitignore(path)]
    /\ UNCHANGED <<config, fs, unreadable, rule_files, constructed,
                   ignore_patterns, include_patterns>>

ParseNext ==
    \/ ParseGitignore
    \/ Return

SpecParse == ParseInit /\ [][ParseNext]_vars

\* the lines of a file with leading and trailing whitespace removed
StrippedLines(f) == [i \in 1..Len(f.lines) |-> strip(f.lines[i])]

IsIgnoreLine(l) == l # <<>> /\ l[1] # "#" /\ l[1] # "!"

IsOverrideLine(l) == l # <<>> /\ l[1] = "!"

\* C18: on a readable file parse_gitignore returns, in file order, as ignore
\* patterns the stripped lines that are non-empty and start with neither "#"
\* nor "!", verbatim, and as override patterns the stripped lines that start
\* with "!", without that one "!"; blank and comment lines give nothing.
C18_ParseReadable ==
    (ret.op = "parse_gitignore" /\ rule_files[ret.path].fail_at = None) =>
        LET stripped  == StrippedLines(rule_files[ret.path])
            overrides == SelectSeq(stripped, IsOverrideLine)
        IN  /\ ret.value[1] = SelectSeq(stripped, IsIgnoreLine)
            /\ ret.value[2] = [i \in 1..Len(overrides) |-> Tail(overrides[i])]

\* a readable file of the lines "!!x" and " *.log " was parsed: one override
\* that keeps its second "!", one ignore pattern without its blanks
C18_Witness ==
    /\ ret.op = "parse_gitignore"
    /\ rule_files[ret.path] = [lines |-> <<l_bang_bang, l_star_log>>, fail_at |-> None]
    /\ ret.value = << <<p_star_log>>, << <<"!", "x">> >> >>

\* C19: when a rule file cannot be opened, or reading it fails at any line,
\* parse_gitignore returns two empty lists.
C19_FailureContributesNothing ==
    (ret.op = "parse_gitignore" /\ rule_files[ret.path].fail_at # None) =>
        ret.value = << <<>>, <<>> >>

(***************************************************************************)
(* The rule-file search on its own: find_gitignore_files from a directory  *)
(* of a tree in which any directory may hold a .gitignore                  *)
(***************************************************************************)

\* the directories of the tree: /, /proj, /proj/src, /proj/src/nested and
\* /proj/other
FindDirs ==
    {<<>>, <<n_proj>>, <<n_proj, n_src>>, <<n_proj, n_src, n_nested>>,
     <<n_proj, n_other>>}

\* the tree with a .gitignore file in the directories G
FindFS(G) ==
    [p \in FindDirs \cup {Append(d, n_gitignore) : d \in G} |->
         IF p \in FindDirs THEN Dir ELSE File(3)]

FindInit ==
    /\ config = DefaultConfig
    /\ \E G \in SUBSET FindDirs : fs = FindFS(G)
    /\ unreadable = {}
    /\ rule_files = <<>>
    /\ constructed = FALSE
    /\ ignore_patterns = {}
    /\ include_patterns = {}
    /\ ret = NoCall

\* find_gitignore_files(root_path)
FindGitignoreFiles ==
    /\ ret.op = "none"
    /\ \E start \in FindDirs :
         ret' = [op |-> "find_gitignore_files", path |-> start,
                 value |-> find_gitignore_files(start)]
    /\ UNCHANGED <<config, fs, unreadable, rule_files, constructed,
                   ignore_patterns, include_patterns>>

FindNext ==
    \/ FindGitignoreFiles
    \/ Return

SpecFind == FindInit /\ [][FindNext]_vars

\* the directory itself and its ancestors up to the filesystem root
SelfAndAncestors(start) == {Slice(start, 1, k) : k \in 0..Len(start)}

\* C20: find_gitignore_files(start) returns exactly the existing .gitignore
\* paths of start and of each ancestor of start up to the filesystem root,
\* one per directory, from the deepest directory to the shallowest;
\* directories without the file give nothing.
C20_FindRuleFiles ==
    ret.op = "find_gitignore_files" =>
        LET v == ret.value
        IN  /\ \A i \in 1..Len(v) :
                   /\ v[i] \in DOMAIN fs
                   /\ \E d \in SelfAndAncestors(ret.path) : v[i] = Append(d, n_gitignore)
            /\ \A d \in SelfAndAncestors(ret.path) :
                   Append(d, n_gitignore) \in DOMAIN fs
                       => Cardinality({i \in 1..Len(v) : v[i] = Append(d, n_gitignore)}) = 1
            /\ \A i, j \in 1..Len(v) : i < j => Len(v[i]) > Len(v[j])

\* the search started in /proj/src/nested, with a .gitignore there, in /proj
\* and in /proj/other, and none in /proj/src and /
C20_Witness ==
    /\ ret.op = "find_gitignore_files"
    /\ ret.path = <<n_proj, n_src, n_nested>>
    /\ fs = FindFS({<<n_proj>>, <<n_proj, n_src, n_nested>>, <<n_proj, n_other>>})
    /\ ret.value = << <<n_proj, n_src, n_nested, n_gitignore>>, <<n_proj, n_gitignore>> >>

(***************************************************************************)
(* Loading the rules: TreeProcessor.__init__ on a root with a rule file of *)
(* its own, one in its subdirectory src and one in the filesystem root     *)
(***************************************************************************)

n_temp_tmp == <<"t", "e", "m", "p", ".", "t", "m", "p">>
p_star_tmp == <<"*", ".", "t", "m", "p">>
l_not_debug_log == <<"!">> \o n_debug_log

\* a project directory with .tmp and .log files at two levels
LoadFS ==
    ( <<>> :> Dir ) @@
    ( <<n_gitignore>> :> File(1) ) @@
    ( <<n_proj>> :> Dir ) @@
    ( <<n_proj, n_gitignore>> :> File(3) ) @@
    ( <<n_proj, n_temp_tmp>> :> File(4) ) @@
    ( <<n_proj, n_debug_log>> :> File(5) ) @@
    ( <<n_proj, n_src>> :> Dir ) @@
    ( <<n_proj, n_src, n_gitignore>> :> File(3) ) @@
    ( <<n_proj, n_src, n_temp_tmp>> :> File(4) ) @@
    ( <<n_proj, n_src, n_debug_log>> :> File(5) )

\* longest rule file of the root, in lines
MaxLoadLines == 2

LoadLinePool == {p_star_tmp, p_star_log, l_not_debug_log}

\* the rule file of the root: every list of at most MaxLoadLines lines, with
\* every point of failure
LoadRootFiles ==
    UNION {{[lines |-> ls, fail_at |-> f] :
                ls \in SeqsOf(LoadLinePool, n),
                f \in {None} \cup {Some(k) : k \in 0..n}} : n \in 0..MaxLoadLines}

\* the values of Config.custom_ignore_patterns (--ignore)
LoadCustomLists == {<<>>, <<p_star_tmp>>, <<p_star_tmp, p_star_log>>}

\* the values of Config.force_include_patterns (--include)
LoadForceLists == {<<>>, <<n_debug_log>>}

LoadInit ==
    /\ config \in
         [ root_path : {RootPath},
           max_depth : {None},
           show_hidden : {FALSE},
           use_icons : {FALSE},
           show_size : {FALSE},
           color_output : {TRUE},
           respect_gitignore : BOOLEAN,
           custom_ignore_patterns : LoadCustomLists,
           force_include_patterns : LoadForceLists ]
    /\ fs = LoadFS
    /\ unreadable = {}
    \* with respect_gitignore off no rule file is opened: one content stands
    \* for all of them
    /\ \E root_file \in IF config.respect_gitignore
                        THEN LoadRootFiles
                        ELSE {[lines |-> <<>>, fail_at |-> None]},
          top_lines \in IF config.respect_gitignore
                        THEN {<<>>, <<p_star_log>>} ELSE {<<>>} :
         rule_files =
             ( <<n_proj, n_gitignore>> :> root_file ) @@
             ( <<n_proj, n_src, n_gitignore>> :>
                   [lines |-> <<p_star_log>>, fail_at |-> None] ) @@
             ( <<n_gitignore>> :> [lines |-> top_lines, fail_at |-> None] )
    /\ constructed = FALSE
    /\ ignore_patterns = {}
    /\ include_patterns = {}
    /\ ret = NoCall

LoadNext ==
    \/ TreeProcessorInit
    \/ ShouldIgnore
    \/ Return

SpecLoad == LoadInit /\ [][LoadNext]_vars

\* C21: with *.tmp in the rule file of the root and *.log in the rule file
\* of its subdirectory src, the constructed processor has both patterns in
\* its ignore set and should_ignore is true of the .tmp and the .log files
\* at the root level and below.
C21_SubdirectoryRuleFile ==
    (/\ constructed
     /\ config.respect_gitignore
     /\ rule_files[<<n_proj, n_gitignore>>] = [lines |-> <<p_star_tmp>>, fail_at |-> None]
     /\ rule_files[<<n_proj, n_src, n_gitignore>>].lines = <<p_star_log>>) =>
        /\ {p_star_tmp, p_star_log} \subseteq ignore_patterns
        /\ (/\ ret.op = "should_ignore"
            /\ include_patterns = {}
            /\ path_name(ret.path) \in {n_temp_tmp, n_debug_log}) => ret.value = TRUE

\* C22: for every value of respect_gitignore the constructed processor has
\* the custom ignore patterns in ignore_patterns and the force-include
\* patterns in include_patterns; with the custom pattern *.tmp should_ignore
\* is true of temp.tmp.
C22_CustomPatternsAlwaysLoaded ==
    constructed =>
        /\ Elems(config.custom_ignore_patterns) \subseteq ignore_patterns
        /\ Elems(config.force_include_patterns) \subseteq include_patterns
        /\ (/\ p_star_tmp \in Elems(config.custom_ignore_patterns)
            /\ ret.op = "should_ignore"
            /\ ret.path = <<n_proj, n_temp_tmp>>) => ret.value = TRUE

\* the lists with the entries of s in any order, an entry possibly repeated
Arrangements(s) ==
    UNION {{t \in SeqsOf(Elems(s), m) : Elems(t) = Elems(s)} :
               m \in Len(s)..(Len(s) + 1)}

\* the patterns a rule file [lines, fail_at] gives
ParsedFile(f) ==
    IF f.fail_at = None THEN parse_lines(f.lines)
    ELSE parse_lines(Slice(f.lines, 1, f.fail_at[1] - 1))

\* the two sets loaded from rule files and the two custom lists
LoadedFrom(files, custom, force) ==
    << UNION {Elems(ParsedFile(f)[1]) : f \in Elems(files)} \cup Elems(custom),
       UNION {Elems(ParsedFile(f)[2]) : f \in Elems(files)} \cup Elems(force) >>

\* the sets the processor holds are those loaded from the rule file of the
\* filesystem root before that of the traversal root, whatever the order and
\* repetition of the root file's lines and of the two custom lists
LoadedSetsOrderFree ==
    LET root == rule_files[<<n_proj, n_gitignore>>]
        top  == rule_files[<<n_gitignore>>]
    IN  \A rl \in Arrangements(root.lines),
           cl \in Arrangements(config.custom_ignore_patterns),
           fl \in Arrangements(config.force_include_patterns) :
            <<ignore_patterns, include_patterns>> =
                LoadedFrom(<<top, [root EXCEPT !.lines = rl]>>, cl, fl)

\* C27: the sets of the constructed processor, and with them every answer of
\* should_ignore, do not change under a reordering or repetition of the
\* lines of a rule file, of the discovered rule files, or of the custom
\* lists; an ignore line after a matching negation line does not hide the
\* entry again.
C27_OrderIrrelevant ==
    (constructed /\ config.respect_gitignore) =>
        /\ LoadedSetsOrderFree
        /\ (/\ ret.op = "should_ignore"
            /\ ret.path = <<n_proj, n_debug_log>>
            /\ rule_files[<<n_proj, n_gitignore>>] =
                   [lines |-> <<l_not_debug_log, p_star_log>>, fail_at |-> None])
               => ret.value = FALSE

\* the same for rule files that are read to their end
ReadableOrderIrrelevant ==
    (/\ constructed
     /\ config.respect_gitignore
     /\ rule_files[<<n_proj, n_gitignore>>].fail_at = None) =>
        /\ LoadedSetsOrderFree
        /\ (/\ ret.op = "should_ignore"
            /\ ret.path = <<n_proj, n_debug_log>>
            /\ l_not_debug_log \in Elems(rule_files[<<n_proj, n_gitignore>>].lines))
               => ret.value = FALSE

(***************************************************************************)
(* Traversal of a tree with a logs directory, a configuration file at two  *)
(* levels, a dangling link, a directory that may be unreadable, and a      *)
(* traversal root that may be a subdirectory or may not exist              *)
(***************************************************************************)

n_logs == <<"l", "o", "g", "s">>
n_stale == <<"s", "t", "a", "l", "e">>
p_logs_dir == <<"l", "o", "g", "s", "/">>
p_logs_important_log == <<"l", "o", "g", "s", "/", "i", "m", "p", "o", "r", "t", "a", "n", "t", ".", "l", "o", "g">>
p_anchored_config_json == <<"/">> \o n_config_json

\* a symbolic link to a target that does not exist
DanglingLink == [is_dir |-> FALSE, size |-> 0, link_target |-> None]

TreeFS ==
    ( <<>> :> Dir ) @@
    ( <<n_proj>> :> Dir ) @@
    ( <<n_proj, n_gitignore>> :> File(3) ) @@
    ( <<n_proj, n_config_json>> :> File(2) ) @@
    ( <<n_proj, n_logs>> :> Dir ) @@
    ( <<n_proj, n_logs, n_debug_log>> :> File(5) ) @@
    ( <<n_proj, n_logs, n_important_log>> :> File(4) ) @@
    ( <<n_proj, n_src>> :> Dir ) @@
    ( <<n_proj, n_src, n_config_json>> :> File(2) ) @@
    ( <<n_proj, n_stale>> :> DanglingLink )

TreeRulePool == <<p_logs_dir, p_star_log, p_anchored_config_json>>

\* the traversal roots: the project, its subdirectory src, a missing path
TreeRoots == {RootPath, <<n_proj, n_src>>, <<n_proj, n_missing>>}

TreeInit ==
    /\ config \in
         [ root_path : TreeRoots,
           max_depth : {None, Some(MaxCallDepth)},
           show_hidden : BOOLEAN,
           use_icons : {FALSE},
           show_size : {FALSE},
           color_output : {TRUE},
           respect_gitignore : BOOLEAN,
           custom_ignore_patterns : {<<>>},
           force_include_patterns : {<<>>, <<p_logs_important_log>>} ]
    /\ fs = TreeFS
    /\ unreadable \in {{}, {<<n_proj, n_src>>}}
    /\ rule_files \in
         [ {<<n_proj, n_gitignore>>} ->
             [lines : IF config.respect_gitignore
                      THEN SubLists(TreeRulePool, Len(TreeRulePool)) ELSE {<<>>},
              fail_at : {None}] ]
    /\ constructed = FALSE
    /\ ignore_patterns = {}
    /\ include_patterns = {}
    /\ ret = NoCall

TreeNext ==
    \/ TreeProcessorInit
    \/ ShouldIgnore
    \/ BuildTree
    \/ GenerateTree
    \/ GenerateJson
    \/ Return

SpecTree == TreeInit /\ [][TreeNext]_vars

\* the depth build_tree reaches the entry p with, in the build of ret
BuildDepthOf(p) == ret.depth + Len(p) - Len(ret.path)

\* C23: in every tree build_tree returns, a directory whose enumeration
\* fails with a permission error is a directory node with no children, and
\* every entry of a directory that can be enumerated is a node when it
\* exists, is not ignored and lies within the depth limit: the failure does
\* not remove the siblings of the unreadable directory nor their subtrees.
C23_UnreadableDirectory ==
    (ret.op = "build_tree" /\ path_exists(ret.path)
         /\ (config.max_depth = None \/ ret.depth <= config.max_depth[1])) =>
        /\ ret.value # None
        /\ \A n \in NodesOf(ret.value[1]) :
               /\ n.path \in unreadable => (n.is_dir /\ n.children = <<>>)
               /\ n.path \notin unreadable =>
                      \A c \in ChildrenOf(n.path) :
                          (/\ path_exists(c)
                           /\ ~should_ignore(c, child_relative_path(c))
                           /\ (config.max_depth = None
                                   \/ BuildDepthOf(c) <= config.max_depth[1]))
                          => c \in PathsOf(ret.value)

\* the project was built while src cannot be enumerated: src is a node
\* without children although it holds config.json, and the file of its
\* sibling logs is in the tree
C23_Witness ==
    /\ ret.op = "build_tree"
    /\ ret.path = <<n_proj>>
    /\ unreadable = {<<n_proj, n_src>>}
    /\ ret.value # None
    /\ \E n \in NodesOf(ret.value[1]) :
           n.path = <<n_proj, n_src>> /\ n.is_dir /\ n.children = <<>>
    /\ <<n_proj, n_src, n_config_json>> \in DOMAIN fs
    /\ <<n_proj, n_logs, n_debug_log>> \in PathsOf(ret.value)

\* C24: build_tree returns None for a path that does not exist; when the
\* traversal root does not exist generate_tree returns the one line
\* "Error: ..." and generate_json a document with the key "error" and no
\* node; an entry that a directory lists and that does not exist is not a
\* node of the built tree.
C24_NonexistentPath ==
    /\ (ret.op = "build_tree" /\ ~path_exists(ret.path)) => ret.value = None
    /\ (ret.op = "generate_tree" /\ ~path_exists(get_root_path)) =>
           /\ Len(ret.value) = 1
           /\ ret.value[1] = ErrorLine(get_root_path)
    /\ (ret.op = "generate_json" /\ ~path_exists(get_root_path)) =>
           DOMAIN ret.value = {"error", "path"}
    /\ (ret.op = "build_tree" /\ ret.value # None) =>
           \A n \in NodesOf(ret.value[1]) : path_exists(n.path)

\* generate_tree has returned its error line for a root that does not
\* exist; and in this state a build of the project leaves out the dangling
\* link, which should_ignore does not hide, and keeps its sibling
\* config.json
C24_Witness ==
    /\ ret.op = "generate_tree"
    /\ get_root_path = <<n_proj, n_missing>>
    /\ ret.value = <<ErrorLine(get_root_path)>>
    /\ ~should_ignore(<<n_proj, n_stale>>, child_relative_path(<<n_proj, n_stale>>))
    /\ <<n_proj, n_stale>> \in ChildrenOf(<<n_proj>>)
    /\ <<n_proj, n_stale>> \notin PathsOf(build_tree(<<n_proj>>, 0, "asc"))
    /\ <<n_proj, n_config_json>> \in PathsOf(build_tree(<<n_proj>>, 0, "asc"))

\* C26: in every built tree, a directory below the build root of which
\* should_ignore is true is not a node and nothing beneath it is a node,
\* also when an override pattern matches an entry beneath it: with the
\* ignore rule logs/ and the override logs/important.log neither logs nor
\* logs/important.log is in the tree, although should_ignore is false of
\* logs/important.log.
C26_SubtreePruning ==
    /\ (ret.op = "build_tree" /\ ret.value # None) =>
           \A d \in DOMAIN fs :
               (/\ path_is_dir(d)
                /\ d # ret.path
                /\ IsUnder(d, ret.path)
                /\ should_ignore(d, child_relative_path(d)))
               => \A p \in DOMAIN fs : IsUnder(p, d) => p \notin PathsOf(ret.value)
    /\ (/\ get_root_path = <<n_proj>>
        /\ p_logs_dir \in ignore_patterns
        /\ p_logs_important_log \in include_patterns) =>
           /\ (ret.op = "build_tree" /\ ret.path = <<n_proj>>) =>
                  {<<n_proj, n_logs>>, <<n_proj, n_logs, n_important_log>>}
                      \cap PathsOf(ret.value) = {}
           /\ (ret.op = "should_ignore" /\ ret.path = <<n_proj, n_logs, n_important_log>>)
                  => ret.value = FALSE

\* the project was built with the ignore rules logs/ and *.log and the
\* override logs/important.log: should_ignore is false of
\* logs/important.log, and the tree has neither logs nor the file
C26_Witness ==
    /\ ret.op = "build_tree"
    /\ ret.path = <<n_proj>>
    /\ get_root_path = <<n_proj>>
    /\ ret.value # None
    /\ {p_logs_dir, p_star_log} \subseteq ignore_patterns
    /\ p_logs_important_log \in include_patterns
    /\ ~should_ignore(<<n_proj, n_logs, n_important_log>>,
                      child_relative_path(<<n_proj, n_logs, n_important_log>>))
    /\ <<n_proj, n_logs>> \notin PathsOf(ret.value)
    /\ <<n_proj, n_logs, n_important_log>> \notin PathsOf(ret.value)
    /\ <<n_proj, n_src>> \in PathsOf(ret.value)

\* the path of p from the traversal root, segments joined by "/"
RootRelative(p) == join(Slice(p, Len(get_root_path) + 1, Len(p)), "/")

\* C28: every node of a built tree other than its root passed should_ignore
\* with its path relative to the configured traversal root when it lies
\* under that root, at every depth, and with its base name otherwise; with
\* the ignore rule /config.json a build of the root without a depth limit
\* leaves out root/config.json and keeps root/src/config.json.
C28_RootRelativePaths ==
    (ret.op = "build_tree" /\ ret.value # None) =>
        /\ \A n \in NodesOf(ret.value[1]) \ {ret.value[1]} :
               IF IsUnder(n.path, get_root_path) /\ n.path # get_root_path
               THEN ~should_ignore(n.path, RootRelative(n.path))
               ELSE IF n.path = get_root_path
               THEN ~should_ignore(n.path, <<".">>)
               ELSE ~should_ignore(n.path, path_name(n.path))
        /\ (/\ ret.path = <<n_proj>>
            /\ get_root_path = <<n_proj>>
            /\ ret.depth = 0
            /\ config.max_depth = None
            /\ ignore_patterns = {p_anchored_config_json}
            /\ include_patterns = {}
            /\ unreadable = {}) =>
               /\ <<n_proj, n_config_json>> \notin PathsOf(ret.value)
               /\ <<n_proj, n_src, n_config_json>> \in PathsOf(ret.value)

\* the root was built with the one ignore rule /config.json: its own
\* config.json is left out, that of src is a node
C28_Witness ==
    /\ ret.op = "build_tree"
    /\ ret.path = <<n_proj>>
    /\ get_root_path = <<n_proj>>
    /\ ret.depth = 0
    /\ config.max_depth = None
    /\ ignore_patterns = {p_anchored_config_json}
    /\ <<n_proj, n_config_json>> \notin PathsOf(ret.value)
    /\ <<n_proj, n_src, n_config_json>> \in PathsOf(ret.value)

(***************************************************************************)
(* Sequences of calls on one constructed processor                         *)
(***************************************************************************)

CallsInit ==
    /\ config \in
         [ root_path : {RootPath},
           max_depth : {None},
           show_hidden : BOOLEAN,
           use_icons : {FALSE},
           show_size : {FALSE},
           color_output : {TRUE},
           respect_gitignore : {TRUE},
           custom_ignore_patterns : {<<>>, <<p_star_log>>},
           force_include_patterns : {<<>>, <<p_logs_important_log>>} ]
    /\ fs = TreeFS
    /\ unreadable = {}
    /\ rule_files \in
         [ {<<n_proj, n_gitignore>>} ->
             [lines : {<<>>, TreeRulePool}, fail_at : {None}] ]
    /\ constructed = FALSE
    /\ ignore_patterns = {}
    /\ include_patterns = {}
    /\ ret = NoCall

SpecCalls == CallsInit /\ [][TreeNext]_vars

\* C30: once the processor is constructed, no call changes ignore_patterns,
\* include_patterns or the configuration, and should_ignore gives for every
\* entry the answer it gave before the call.
C30_ReadOnlyFilter ==
    [][constructed =>
          /\ ignore_patterns' = ignore_patterns
          /\ include_patterns' = include_patterns
          /\ config' = config
          /\ \A p \in DOMAIN fs :
                 should_ignore(p, child_relative_path(p))'
                     = should_ignore(p, child_relative_path(p))]_vars

\* a traversal of the project has returned a tree while the processor holds
\* ignore and override patterns
C30_Witness ==
    /\ constructed
    /\ ret.op = "build_tree"
    /\ ret.path = <<n_proj>>
    /\ ret.value # None
    /\ ignore_patterns = {p_logs_dir, p_star_log, p_anchored_config_json}
    /\ include_patterns = {p_logs_important_log}

(***************************************************************************)
(* bonsai/cli.py: one run of the command                                   *)
(***************************************************************************)

\* the requested roots: a directory, a file, a path that does not exist, a
\* dangling link
CliPaths ==
    {RootPath, <<n_proj, n_config_json>>, <<n_proj, n_missing>>, <<n_proj, n_stale>>}

\* config holds the parsed arguments; Config.from_args copies them field by
\* field once the path is validated
CliInit ==
    /\ config \in
         [ root_path : CliPaths,
           max_depth : {None},
           show_hidden : BOOLEAN,
           use_icons : {FALSE},
           show_size : {FALSE},
           color_output : {TRUE},
           respect_gitignore : BOOLEAN,
           custom_ignore_patterns : {<<>>},
           force_include_patterns : {<<>>},
           output_file : {None, Some("out.txt")},
           output_format : {"tree", "json"} ]
    /\ fs = TreeFS
    /\ unreadable = {}
    /\ rule_files \in
         [ {<<n_proj, n_gitignore>>} ->
             [lines : IF config.respect_gitignore
                      THEN SubLists(TreeRulePool, Len(TreeRulePool)) ELSE {<<>>},
              fail_at : {None}] ]
    /\ constructed = FALSE
    /\ ignore_patterns = {}
    /\ include_patterns = {}
    /\ ret = NoCall

\* the run has validated its path and not yet ended
CliRunning == ret.op = "cli" /\ ret.exit_status = None

\* the validation of cli() without the test path.is_dir()
CliValidate_no_dir_check ==
    /\ ~constructed
    /\ ret.op = "none"
    /\ IF ~path_exists(config.root_path)
       THEN ret' = [op |-> "cli", exit_status |-> Some(1),
                    stderr |-> Some("Error: Path does not exist"),
                    stdout |-> None, written |-> None]
       ELSE ret' = [op |-> "cli", exit_status |-> None, stderr |-> None,
                    stdout |-> None, written |-> None]
    /\ UNCHANGED <<config, fs, unreadable, rule_files, constructed,
                   ignore_patterns, include_patterns>>

\* cli(): the path is validated; sys.exit(1) after one message on stderr
\* when it does not exist or is not a directory
CliValidate ==
    /\ ~constructed
    /\ ret.op = "none"
    /\ IF ~path_exists(config.root_path)
       THEN ret' = [op |-> "cli", exit_status |-> Some(1),
                    stderr |-> Some("Error: Path does not exist"),
                    stdout |-> None, written |-> None]
       ELSE IF ~path_is_dir(config.root_path)
       THEN ret' = [op |-> "cli", exit_status |-> Some(1),
                    stderr |-> Some("Error: Path is not a directory"),
                    stdout |-> None, written |-> None]
       ELSE ret' = [op |-> "cli", exit_status |-> None, stderr |-> None,
                    stdout |-> None, written |-> None]
    /\ UNCHANGED <<config, fs, unreadable, rule_files, constructed,
                   ignore_patterns, include_patterns>>

\* cli(): config = Config.from_args(args); processor = TreeProcessor(config)
CliCreateProcessor ==
    /\ CliRunning
    /\ TreeProcessorInit

\* cli(): the output is generated, then printed or written to the output
\* file; the run ends with status 0
CliOutput ==
    /\ CliRunning
    /\ constructed
    /\ \E order \in EnumOrders :
         LET output == IF config.output_format = "json"
                       THEN generate_json(order)
                       ELSE generate_tree(order)
         IN  ret' = [op |-> "cli", exit_status |-> Some(0), stderr |-> None,
                     stdout |-> IF config.output_file = None
                                THEN Some(output)
                                ELSE Some("Output written to"),
                     written |-> IF config.output_file = None
                                 THEN None ELSE Some(output)]
    /\ UNCHANGED <<config, fs, unreadable, rule_files, constructed,
                   ignore_patterns, include_patterns>>

CliNext ==
    \/ CliValidate
    \/ CliCreateProcessor
    \/ CliOutput

SpecCli == CliInit /\ [][CliNext]_vars

\* C25: when the requested root does not exist or is not a directory, the
\* run ends with exit status 1 and one error message, no TreeProcessor is
\* constructed, and no tree is printed or written.
C25_RootRejection ==
    (~path_exists(config.root_path) \/ ~path_is_dir(config.root_path)) =>
        /\ ~constructed
        /\ ret.op = "cli" =>
               /\ ret.exit_status = Some(1)
               /\ ret.stderr # None
               /\ ret.stdout = None
               /\ ret.written = None

\* a run was asked for a root that is a file, with an output file: it has
\* ended with status 1 and the file was not written
C25_Witness ==
    /\ ret.op = "cli"
    /\ config.root_path = <<n_proj, n_config_json>>
    /\ path_exists(config.root_path)
    /\ config.output_file # None
    /\ ret.exit_status = Some(1)
    /\ ~constructed
    /\ ret.written = None

(***************************************************************************)
(* SpecLinks: builds over directory trees that hold symbolic links to a    *)
(* sibling directory and to an ancestor directory                          *)
(***************************************************************************)

n_alias == <<"a", "l", "i", "a", "s">>
n_up == <<"u", "p">>

\* a symbolic link to the existing entry at the real path target
LinkTo(target) == [is_dir |-> FALSE, size |-> 0, link_target |-> Some(target)]

\* the symbolic links a tree of the model may hold
LinkPool ==
    ( <<n_proj, n_alias>> :> LinkTo(<<n_proj, n_src>>) ) @@
    ( <<n_proj, n_src, n_up>> :> LinkTo(<<n_proj>>) )

\* the directory tree with the links at the paths L
LinkFS(L) ==
    ( <<>> :> Dir ) @@
    ( <<n_proj>> :> Dir ) @@
    ( <<n_proj, n_gitignore>> :> File(1) ) @@
    ( <<n_proj, n_src>> :> Dir ) @@
    ( <<n_proj, n_src, n_config_json>> :> File(2) ) @@
    ( <<n_proj, n_src, n_debug_log>> :> File(5) ) @@
    [p \in L |-> LinkPool[p]]

LinksInit ==
    /\ config \in
         [ root_path : {RootPath},
           max_depth : {None, Some(MaxCallDepth)},
           show_hidden : BOOLEAN,
           use_icons : {FALSE},
           show_size : {FALSE},
           color_output : {TRUE},
           respect_gitignore : BOOLEAN,
           custom_ignore_patterns : {<<>>},
           force_include_patterns : {<<>>} ]
    /\ fs \in {LinkFS(L) : L \in SUBSET DOMAIN LinkPool}
    /\ unreadable = {}
    /\ rule_files \in
         [ {<<n_proj, n_gitignore>>} ->
             [lines : IF config.respect_gitignore
                      THEN {<<>>, <<p_star_log>>} ELSE {<<>>},
              fail_at : {None}] ]
    /\ constructed = FALSE
    /\ ignore_patterns = {}
    /\ include_patterns = {}
    /\ ret = NoCall

LinksNext ==
    \/ TreeProcessorInit
    \/ BuildTree
    \/ Return

SpecLinks == LinksInit /\ [][LinksNext]_vars

\* the paths of the nodes of a tree, parents before children
RECURSIVE TreePaths(_)
RECURSIVE ForestPaths(_)
TreePaths(node) == <<node.path>> \o ForestPaths(node.children)

ForestPaths(nodes) ==
    IF nodes = <<>> THEN <<>>
    ELSE TreePaths(nodes[1]) \o ForestPaths(Tail(nodes))

\* no two nodes of the tree stand for the same filesystem entry
SingleVisit(node) ==
    \A i, j \in 1..Len(TreePaths(node)) :
        i # j => real_path(TreePaths(node)[i]) # real_path(TreePaths(node)[j])

\* C29: build_tree returns on every finite directory tree, and in the tree
\* it returns no two nodes stand for the same filesystem entry: no entry
\* under the root is turned into more than one node and no directory is
\* enumerated more than once.
C29_SingleVisit ==
    (ret.op = "build_tree" /\ ret.value # None) => SingleVisit(ret.value[1])

\* on a directory tree without symbolic links every build visits each entry
\* at most once
LinkFreeSingleVisit ==
    (ret.op = "build_tree" /\ ret.value # None
        /\ \A p \in DOMAIN fs : ~is_link(fs[p]))
    => SingleVisit(ret.value[1])

\* a build of a tree without links has returned a tree of several levels
LinkFreeBuilt ==
    /\ ret.op = "build_tree"
    /\ ret.value # None
    /\ \A p \in DOMAIN fs : ~is_link(fs[p])
    /\ Len(TreePaths(ret.value[1])) >= 4

====
